---- MODULE Spec2Model ----
(***************************************************************************)
(* Emergency-Service-Readiness-Dashboard.                                  *)
(*                                                                         *)
(* Part 1: the warehouse side.  The readiness aggregation is the MERGE of  *)
(* process_personnel_readiness_task (03_streams_and_tasks.sql), modelled   *)
(* stage by stage: the current_assignments CTE, the missing_cert subquery, *)
(* the unit_readiness CTE, the final SELECT with the score CASE, and the   *)
(* MERGE into UNIT_READINESS_AGGREGATES.                                   *)
(*                                                                         *)
(* Part 2: the readiness page (dashboard/app/readiness/page.tsx): the      *)
(* unit list, the WebSocket registry and its effect, the message handler   *)
(* with its alerts.                                                        *)
(***************************************************************************)
EXTENDS Integers, Sequences, FiniteSets, TLC

VARIABLES
    UNITS,           \* RAW.UNITS: unit_id -> row
    PERSONNEL,       \* RAW.PERSONNEL: personnel_id -> row
    UNIT_ASSIGNMENTS,     \* RAW.UNIT_ASSIGNMENTS: set of rows
    now,             \* CURRENT_TIMESTAMP()
    unit_readiness,  \* rows of the unit_readiness CTE handed to the final SELECT
    snapshots,       \* source rows of the last MERGE (the computed snapshots)
    UNIT_READINESS_AGGREGATES,      \* ANALYTICS.UNIT_READINESS_AGGREGATES
    runs,            \* task runs since the inputs last changed
    units,           \* page state: unit_id -> UnitReadiness held by the page
    wsConnected,     \* page state: the unit ids counted as live
    toasts,          \* page state: the alerts on screen
    wsConnectionsRef,\* the registry: unit_id -> WebSocket
    sockets,         \* every WebSocket the page has created, in creation order
    hasCleanup,      \* the last run of the WebSocket effect returned its cleanup
    effectDeps,      \* the unit ids the WebSocket effect last ran for
    error,           \* page state: the message of a failed fetchReadiness, or null
    toastTimers,     \* the clock steps left on the timer of each toast on screen
    latest,          \* backend: the snapshot last computed for the first unit
    inflight         \* the responses of GET /api/readiness/units on their way

dbvars == <<UNITS, PERSONNEL, UNIT_ASSIGNMENTS, now, unit_readiness, snapshots, UNIT_READINESS_AGGREGATES, runs>>

pagevars == <<units, wsConnected, toasts, wsConnectionsRef, sockets, hasCleanup, effectDeps,
              error, toastTimers, latest, inflight>>

vars == <<dbvars, pagevars>>

----------------------------------------------------------------------------
(* Bounds *)

MaxPersonnel == 3
MaxCrew == 2
MaxStaff == 5
MaxMinStaff == 3
MaxTime == 2
MaxRuns == 2
MaxAssignments == 2
MaxSockets == 4
MaxToasts == 3
TicksPerDay == 2
MaxVersion == 2
\* the 5000 ms of a toast, in clock steps
ToastTicks == 2

----------------------------------------------------------------------------
(* Domains *)

UnitIds == {"U1"}

\* certification names in collation order (ORDER BY missing_cert.cert)
CertOrder == <<"ACLS", "EMT-P">>

Certs == {CertOrder[i] : i \in 1..Len(CertOrder)}

AvailabilityInputs == {"AVAILABLE", "OFF"}

Range(s) == {s[i] : i \in 1..Len(s)}

NoDuplicates(s) == \A i, j \in 1..Len(s) : s[i] = s[j] => i = j

MaxOf(S) == CHOOSE x \in S : \A y \in S : y <= x

\* ARRAY_AGG(DISTINCT x) WITHIN GROUP (ORDER BY x): one entry per value, sorted
ArrayAggDistinct(S) == SelectSeq(CertOrder, LAMBDA c : c \in S)

\* CURRENT_DATE() of a timestamp
DateOf(t) == t \div TicksPerDay

----------------------------------------------------------------------------
(* process_personnel_readiness_task *)

\* WHERE clause of the current_assignments CTE
IsCurrent(ua, t) ==
    /\ ua.assignment_status = "ON_SHIFT"
    /\ ua.shift_start <= t /\ t <= ua.shift_end

\* current_assignments CTE: UNIT_ASSIGNMENTS joined with PERSONNEL and UNITS
CurrentAssignments(U, P, A, t) ==
    { [unit_id |-> ua.unit_id,
       assignment_status |-> ua.assignment_status,
       shift_start |-> ua.shift_start,
       shift_end |-> ua.shift_end,
       personnel_id |-> ua.personnel_id,
       availability_status |-> P[ua.personnel_id].availability_status,
       certifications |-> P[ua.personnel_id].certifications,
       cert_expirations |-> P[ua.personnel_id].cert_expirations,
       minimum_staff |-> U[ua.unit_id].minimum_staff,
       required_certifications |-> U[ua.unit_id].required_certifications]
      : ua \in { a \in A : /\ a.personnel_id \in DOMAIN P
                           /\ a.unit_id \in DOMAIN U
                           /\ IsCurrent(a, t) } }

\* missing_cert subquery: one row per (unit, person, required certification
\* that this person does not hold)
MissingCert(ca) ==
    UNION { { [unit_id |-> ca2.unit_id, personnel_id |-> ca2.personnel_id, cert |-> c]
              : c \in { rc \in ca2.required_certifications : rc \notin ca2.certifications } }
            : ca2 \in ca }

\* the aggregated missing_certs of one unit: the LEFT JOIN on (unit_id,
\* personnel_id) followed by ARRAY_AGG(DISTINCT ...) over the group
MissingCerts(ca, u) ==
    ArrayAggDistinct({ m.cert : m \in { mc \in MissingCert(ca) :
        \E r \in ca : /\ r.unit_id = u
                      /\ r.unit_id = mc.unit_id
                      /\ r.personnel_id = mc.personnel_id } })

\* unit_readiness CTE: GROUP BY ca.unit_id
UnitReadiness(ca) ==
    { [unit_id |-> u,
       minimum_staff |-> MaxOf({ r.minimum_staff : r \in { x \in ca : x.unit_id = u } }),
       current_staff |-> Cardinality({ r.personnel_id : r \in { x \in ca : x.unit_id = u } }),
       available_staff |-> Cardinality({ r.personnel_id : r \in
            { x \in ca : x.unit_id = u /\ x.availability_status = "AVAILABLE" } }),
       missing_certs |-> MissingCerts(ca, u)]
      : u \in { r.unit_id : r \in ca } }

\* below the minimum the score is the percentage of the minimum that is
\* present (faulty variant of ReadinessScore)
ReadinessScoreProportional(ur) ==
    IF /\ ur.current_staff >= ur.minimum_staff
       /\ ur.available_staff >= ur.minimum_staff
       /\ Len(ur.missing_certs) = 0
    THEN 100
    ELSE IF /\ ur.current_staff >= ur.minimum_staff
            /\ ur.available_staff >= ur.minimum_staff
    THEN 85
    ELSE IF ur.current_staff >= ur.minimum_staff
    THEN 70
    ELSE (100 * ur.current_staff) \div ur.minimum_staff

\* the fully-staffed band entered only above the minimum (faulty variant of ReadinessScore)
ReadinessScoreStrict(ur) ==
    IF /\ ur.current_staff >= ur.minimum_staff
       /\ ur.available_staff >= ur.minimum_staff
       /\ Len(ur.missing_certs) = 0
    THEN 100
    ELSE IF /\ ur.current_staff >= ur.minimum_staff
            /\ ur.available_staff >= ur.minimum_staff
    THEN 85
    ELSE IF ur.current_staff > ur.minimum_staff
    THEN 70
    ELSE IF 10 * ur.current_staff >= 8 * ur.minimum_staff
    THEN 50
    ELSE 30

\* the 50 band entered from three quarters of the minimum (faulty variant of ReadinessScore)
ReadinessScoreThreeQuarters(ur) ==
    IF /\ ur.current_staff >= ur.minimum_staff
       /\ ur.available_staff >= ur.minimum_staff
       /\ Len(ur.missing_certs) = 0
    THEN 100
    ELSE IF /\ ur.current_staff >= ur.minimum_staff
            /\ ur.available_staff >= ur.minimum_staff
    THEN 85
    ELSE IF ur.current_staff >= ur.minimum_staff
    THEN 70
    ELSE IF 4 * ur.current_staff >= 3 * ur.minimum_staff
    THEN 50
    ELSE 30

\* the readiness_score CASE
ReadinessScore(ur) ==
    IF /\ ur.current_staff >= ur.minimum_staff
       /\ ur.available_staff >= ur.minimum_staff
       /\ Len(ur.missing_certs) = 0
    THEN 100
    ELSE IF /\ ur.current_staff >= ur.minimum_staff
            /\ ur.available_staff >= ur.minimum_staff
    THEN 85
    ELSE IF ur.current_staff >= ur.minimum_staff
    THEN 70
    ELSE IF 10 * ur.current_staff >= 8 * ur.minimum_staff
    THEN 50
    ELSE 30

\* the flag raised at the minimum itself (faulty variant of UnderstaffedFlag)
UnderstaffedFlagAtMinimum(ur) ==
    IF ur.current_staff <= ur.minimum_staff THEN TRUE ELSE FALSE

\* the understaffed_flag CASE
UnderstaffedFlag(ur) ==
    IF ur.current_staff < ur.minimum_staff THEN TRUE ELSE FALSE

\* the final SELECT ... FROM unit_readiness ur: one source row per unit
ReadinessSelect(ur, t) ==
    [unit_id |-> ur.unit_id,
     date |-> DateOf(t),
     calculated_at |-> t,
     minimum_staff |-> ur.minimum_staff,
     current_staff |-> ur.current_staff,
     available_staff |-> ur.available_staff,
     readiness_score |-> ReadinessScore(ur),
     missing_certifications |-> ur.missing_certs,
     understaffed_flag |-> UnderstaffedFlag(ur)]

ReadinessSource(urRows, t) == { ReadinessSelect(ur, t) : ur \in urRows }

\* ON target.unit_id = source.unit_id AND target.date = source.date
MergeMatch(tr, sr) == tr.unit_id = sr.unit_id /\ tr.date = sr.date

\* counts added to the stored ones instead of replacing them (faulty variant of MergeUpdate)
MergeUpdateAccumulate(tr, sr, t) ==
    [tr EXCEPT !.calculated_at = sr.calculated_at,
               !.current_staff = tr.current_staff + sr.current_staff,
               !.available_staff = tr.available_staff + sr.available_staff,
               !.readiness_score = sr.readiness_score,
               !.missing_certifications = sr.missing_certifications,
               !.understaffed_flag = sr.understaffed_flag,
               !.last_updated = t]

\* WHEN MATCHED THEN UPDATE SET ...
MergeUpdate(tr, sr, t) ==
    [tr EXCEPT !.calculated_at = sr.calculated_at,
               !.current_staff = sr.current_staff,
               !.available_staff = sr.available_staff,
               !.readiness_score = sr.readiness_score,
               !.missing_certifications = sr.missing_certifications,
               !.understaffed_flag = sr.understaffed_flag,
               !.last_updated = t]

\* WHEN NOT MATCHED THEN INSERT ... (last_updated takes its column default)
MergeInsert(sr, t) ==
    [unit_id |-> sr.unit_id,
     date |-> sr.date,
     calculated_at |-> sr.calculated_at,
     minimum_staff |-> sr.minimum_staff,
     current_staff |-> sr.current_staff,
     available_staff |-> sr.available_staff,
     readiness_score |-> sr.readiness_score,
     missing_certifications |-> sr.missing_certifications,
     understaffed_flag |-> sr.understaffed_flag,
     last_updated |-> t]

\* the table replaced by the rows of the source (faulty variant of Merge)
MergeReplace(target, source, t) ==
    { MergeInsert(sr, t) : sr \in source }

\* MERGE INTO ANALYTICS.UNIT_READINESS_AGGREGATES
Merge(target, source, t) ==
    { IF \E sr \in source : MergeMatch(tr, sr)
      THEN MergeUpdate(tr, CHOOSE sr \in source : MergeMatch(tr, sr), t)
      ELSE tr : tr \in target }
    \cup
    { MergeInsert(sr, t) : sr \in { s \in source : ~ \E tr \in target : MergeMatch(tr, s) } }

----------------------------------------------------------------------------
(* certification_expiration_summary and the expired certifications of a unit *)

ExpiringSoonDays == 30

\* expiry on or before the reference time counted as expired (faulty variant of ExpirationStatus)
ExpirationStatusInclusive(expiration_date, t) ==
    IF expiration_date <= t THEN "EXPIRED"
    ELSE IF DateOf(expiration_date) - DateOf(t) <= ExpiringSoonDays THEN "EXPIRING_SOON"
    ELSE "VALID"

\* the status CASE of the view
ExpirationStatus(expiration_date, t) ==
    IF expiration_date < t THEN "EXPIRED"
    ELSE IF DateOf(expiration_date) - DateOf(t) <= ExpiringSoonDays THEN "EXPIRING_SOON"
    ELSE "VALID"

\* the view: one row per person and key of cert_expirations
CertificationExpirationSummary(P, t) ==
    UNION { { [personnel_id |-> p,
               certification_name |-> c,
               expiration_date |-> P[p].cert_expirations[c],
               days_until_expiry |-> DateOf(P[p].cert_expirations[c]) - DateOf(t),
               status |-> ExpirationStatus(P[p].cert_expirations[c], t)]
              : c \in DOMAIN P[p].cert_expirations }
            : p \in DOMAIN P }

\* the persons currently on shift on unit u
Crew(u) ==
    { r.personnel_id : r \in { x \in CurrentAssignments(UNITS, PERSONNEL, UNIT_ASSIGNMENTS, now) :
                                x.unit_id = u } }

\* expired_certifications of the unit's readiness payload: the names the view
\* reports EXPIRED for a person of the crew, each name once
ExpiredCertifications(u) ==
    ArrayAggDistinct({ r.certification_name :
        r \in { x \in CertificationExpirationSummary(PERSONNEL, now) :
                  x.status = "EXPIRED" /\ x.personnel_id \in Crew(u) } })

\* missing_certs of unit u over the tables as they are
MissingNow(u) ==
    MissingCerts(CurrentAssignments(UNITS, PERSONNEL, UNIT_ASSIGNMENTS, now), u)

----------------------------------------------------------------------------
\* one scheduled run of the task over the tables as they are
RunReadinessTask ==
    /\ runs < MaxRuns
    /\ unit_readiness = {}
    /\ snapshots' = ReadinessSource(UnitReadiness(CurrentAssignments(UNITS, PERSONNEL, UNIT_ASSIGNMENTS, now)), now)
    /\ UNIT_READINESS_AGGREGATES' = Merge(UNIT_READINESS_AGGREGATES, snapshots', now)
    /\ runs' = runs + 1
    /\ UNCHANGED <<UNITS, PERSONNEL, UNIT_ASSIGNMENTS, now, unit_readiness>>
    /\ UNCHANGED pagevars

\* the final SELECT and the MERGE applied to given unit_readiness rows
ScoreRows ==
    /\ runs < MaxRuns
    /\ unit_readiness # {}
    /\ snapshots' = ReadinessSource(unit_readiness, now)
    /\ UNIT_READINESS_AGGREGATES' = Merge(UNIT_READINESS_AGGREGATES, snapshots', now)
    /\ runs' = runs + 1
    /\ UNCHANGED <<UNITS, PERSONNEL, UNIT_ASSIGNMENTS, now, unit_readiness>>
    /\ UNCHANGED pagevars

----------------------------------------------------------------------------
(* Changes to the tables made by the record store *)

\* the persons with an assignment row
Assigned == { a.personnel_id : a \in UNIT_ASSIGNMENTS }

\* POST /api/UNIT_ASSIGNMENTS: a new ON_SHIFT assignment covering the whole day;
\* persons are put on shift in id order (the aggregation is symmetric in ids)
CreateAssignment(u) ==
    /\ \E p \in DOMAIN PERSONNEL :
         /\ p \notin Assigned
         /\ \A q \in DOMAIN PERSONNEL : q < p => q \in Assigned
         /\ UNIT_ASSIGNMENTS' = UNIT_ASSIGNMENTS \cup
              { [unit_id |-> u, personnel_id |-> p, shift_start |-> 0,
                 shift_end |-> MaxTime, assignment_status |-> "ON_SHIFT"] }
    /\ runs' = 0
    /\ UNCHANGED <<UNITS, PERSONNEL, now, unit_readiness, snapshots, UNIT_READINESS_AGGREGATES>>
    /\ UNCHANGED pagevars

\* the units of the station, each with its own assignments
StationUnitIds == {"U1", "U2"}

\* shift windows: the early shift, the whole period, the late shift
ShiftWindows == { <<0, 1>>, <<0, MaxTime>>, <<1, MaxTime>> }

\* the values of assignment_status: the default and one other
AssignmentStatuses == {"ON_SHIFT", "OFF_SHIFT"}

\* POST /api/UNIT_ASSIGNMENTS with any window and status; a person gets a row
\* once every person with a smaller id has one
CreateShift(u, p, w, st) ==
    /\ Cardinality(UNIT_ASSIGNMENTS) < MaxAssignments
    /\ \A q \in DOMAIN PERSONNEL : q < p => q \in Assigned
    /\ UNIT_ASSIGNMENTS' = UNIT_ASSIGNMENTS \cup
         { [unit_id |-> u, personnel_id |-> p, shift_start |-> w[1],
            shift_end |-> w[2], assignment_status |-> st] }
    /\ UNIT_ASSIGNMENTS' # UNIT_ASSIGNMENTS
    /\ runs' = 0
    /\ UNCHANGED <<UNITS, PERSONNEL, now, unit_readiness, snapshots, UNIT_READINESS_AGGREGATES>>
    /\ UNCHANGED pagevars

\* an expiry on the reference time itself taken for expired (faulty variant
\* of ExpirationTaskMatches)
ExpirationTaskMatchesInclusive(row, t) ==
    /\ \E c \in DOMAIN row.cert_expirations : row.cert_expirations[c] <= t
    /\ row.availability_status # "IN_TRAINING"

\* WHERE EXISTS of process_certification_expirations_task for one row of PERSONNEL
ExpirationTaskMatches(row, t) ==
    /\ \E c \in DOMAIN row.cert_expirations : row.cert_expirations[c] < t
    /\ row.availability_status # "IN_TRAINING"

\* one scheduled run of process_certification_expirations_task; the run's
\* CURRENT_TIMESTAMP() is the time and the run's place within it
RunExpirationTask ==
    /\ runs < MaxRuns
    /\ PERSONNEL' = [p \in DOMAIN PERSONNEL |->
                       IF ExpirationTaskMatches(PERSONNEL[p], now)
                       THEN [PERSONNEL[p] EXCEPT !.availability_status = "IN_TRAINING",
                                                 !.updated_at = <<now, runs + 1>>]
                       ELSE PERSONNEL[p]]
    /\ runs' = runs + 1
    /\ UNCHANGED <<UNITS, UNIT_ASSIGNMENTS, now, unit_readiness, snapshots, UNIT_READINESS_AGGREGATES>>
    /\ UNCHANGED pagevars

\* the record store changes the minimum_staff of a unit (UNITS.minimum_staff
\* is a positive integer)
SetMinimumStaff(u, m) ==
    /\ m > 0
    /\ m # UNITS[u].minimum_staff
    /\ UNITS' = [UNITS EXCEPT ![u].minimum_staff = m]
    /\ runs' = 0
    /\ UNCHANGED <<PERSONNEL, UNIT_ASSIGNMENTS, now, unit_readiness, snapshots, UNIT_READINESS_AGGREGATES>>
    /\ UNCHANGED pagevars

\* time passes
Tick ==
    /\ now < MaxTime
    /\ now' = now + 1
    /\ runs' = 0
    /\ UNCHANGED <<UNITS, PERSONNEL, UNIT_ASSIGNMENTS, unit_readiness, snapshots, UNIT_READINESS_AGGREGATES>>
    /\ UNCHANGED pagevars

----------------------------------------------------------------------------
(* The readiness page *)

\* the unit ids the API can return, in the order it lists them
ApiUnitOrder == <<"U1", "U2">>

ApiUnitIds == Range(ApiUnitOrder)

\* the fields of UnitReadiness that the page's logic reads
UnitReadinessData(u) ==
    [unit_id : {u},
     is_understaffed : BOOLEAN,
     expired_certifications : {<<>>, <<"ACLS">>},
     certifications_missing : {<<>>, <<"EMT-P">>},
     timestamp : {0}]

\* staffing-only readiness data: no certification gaps
StaffingData(u) ==
    { d \in UnitReadinessData(u) :
        d.expired_certifications = <<>> /\ d.certifications_missing = <<>> }

\* responses of GET /api/readiness/units: one entry per listed unit, each
\* fully staffed and without gaps
ReadinessResponses ==
    { [u \in S |-> [unit_id |-> u, is_understaffed |-> FALSE,
                    expired_certifications |-> <<>>, certifications_missing |-> <<>>,
                    timestamp |-> 0]]
      : S \in SUBSET ApiUnitIds }

\* responses listing no unit or the first unit only, with any readiness data
AlertResponses ==
    {<<>>} \cup { [u \in {ApiUnitOrder[1]} |-> d] : d \in UnitReadinessData(ApiUnitOrder[1]) }

\* staffing-only readiness data of successive computations
VersionedData(u) ==
    [unit_id : {u},
     is_understaffed : BOOLEAN,
     expired_certifications : {<<>>},
     certifications_missing : {<<>>},
     timestamp : 0..MaxVersion]

\* useState<string | null>(null)
NoError == "null"

\* err.message of a non-OK response and of a request that got no response
FetchErrors == {"Failed to fetch readiness data", "Failed to fetch"}

\* every Toast on screen runs its effect again with a new onClose: each
\* timer is cleared and set to the full duration
Restarted(ts) == [k \in DOMAIN ts |-> ToastTicks]

\* the page component renders again
Rerender == toastTimers' = Restarted(toasts')

Live(ws) == ws.readyState = "OPEN" \/ ws.readyState = "CONNECTING"

\* ws.close() on each listed socket that is OPEN or CONNECTING
CloseAll(socks, idxs) ==
    [i \in DOMAIN socks |->
        IF i \in idxs /\ Live(socks[i])
        THEN [socks[i] EXCEPT !.readyState = "CLOSING"]
        ELSE socks[i]]

\* Map.delete
MapDelete(m, k) == [x \in DOMAIN m \ {k} |-> m[x]]

\* Map.set
MapSet(m, k, v) == [x \in DOMAIN m \cup {k} |-> IF x = k THEN v ELSE m[x]]

\* addToast / setToasts((prev) => [...prev, toast])
AddToasts(prev, alerts) == prev \o alerts

\* the units the effect opens a socket for: units.forEach, skipping a unit
\* whose registered socket is OPEN
RECURSIVE Connect(_, _, _)
Connect(order, reg, socks) ==
    IF order = <<>> THEN <<reg, socks>>
    ELSE LET u == Head(order) IN
         IF u \in DOMAIN reg /\ socks[reg[u]].readyState = "OPEN"
         THEN Connect(Tail(order), reg, socks)
         ELSE Connect(Tail(order),
                      MapSet(reg, u, Len(socks) + 1),
                      Append(socks, [unit_id |-> u, readyState |-> "CONNECTING"]))

\* setUnits(data) of fetchReadiness; the state update is rendered after the
\* effects of the previous render have run
SetUnits(data) ==
    /\ effectDeps = DOMAIN units
    /\ units' = data
    /\ UNCHANGED <<wsConnected, toasts, wsConnectionsRef, sockets, hasCleanup, effectDeps, error>>
    /\ Rerender
    /\ UNCHANGED dbvars

\* fetchReadiness answered with data
FetchReadiness(data) ==
    /\ SetUnits(data)
    /\ UNCHANGED <<latest, inflight>>

\* the WebSocket effect, re-run because the sorted unit ids changed: the cleanup
\* of the previous run, then the body
RunEffect ==
    /\ effectDeps # DOMAIN units
    /\ LET regIn == wsConnectionsRef
           \* cleanup: close every registered socket, clear the registry
           socks1 == IF hasCleanup
                     THEN CloseAll(sockets, { regIn[u] : u \in DOMAIN regIn })
                     ELSE sockets
           reg1 == IF hasCleanup THEN <<>> ELSE regIn
           currentUnitIds == DOMAIN units
           \* close connections for units that no longer exist
           gone == { u \in DOMAIN reg1 : u \notin currentUnitIds }
           socks2 == CloseAll(socks1, { reg1[u] : u \in gone })
           reg2 == [u \in DOMAIN reg1 \ gone |-> reg1[u]]
           \* create connections for new units only
           made == Connect(SelectSeq(ApiUnitOrder, LAMBDA u : u \in currentUnitIds), reg2, socks2)
       IN  IF units = <<>>
           THEN /\ sockets' = socks1
                /\ wsConnectionsRef' = reg1
                /\ wsConnected' = wsConnected
                /\ hasCleanup' = FALSE
           ELSE /\ Len(made[2]) <= MaxSockets
                /\ sockets' = made[2]
                /\ wsConnectionsRef' = made[1]
                /\ wsConnected' = wsConnected \ gone
                /\ hasCleanup' = TRUE
    /\ effectDeps' = DOMAIN units
    /\ UNCHANGED <<units, toasts, error, toastTimers, latest, inflight>>
    /\ UNCHANGED dbvars

\* ws.onopen
WsOpen(i) ==
    /\ sockets[i].readyState = "CONNECTING"
    /\ sockets' = [sockets EXCEPT ![i].readyState = "OPEN"]
    /\ wsConnected' = wsConnected \cup {sockets[i].unit_id}
    /\ UNCHANGED <<units, toasts, wsConnectionsRef, hasCleanup, effectDeps, error, latest, inflight>>
    /\ Rerender
    /\ UNCHANGED dbvars

\* the two warnings raised also when a count stays the same (faulty variant of Alerts)
AlertsOnNoChange(oldUnit, newData) ==
    (IF newData.is_understaffed /\ ~oldUnit.is_understaffed
     THEN << [message |-> "UNDERSTAFFED", unit |-> newData.unit_id, type |-> "error"] >>
     ELSE <<>>)
    \o
    (IF Len(newData.expired_certifications) >= Len(oldUnit.expired_certifications)
     THEN << [message |-> "EXPIRED", unit |-> newData.unit_id, type |-> "warning"] >>
     ELSE <<>>)
    \o
    (IF Len(newData.certifications_missing) >= Len(oldUnit.certifications_missing)
     THEN << [message |-> "MISSING", unit |-> newData.unit_id, type |-> "warning"] >>
     ELSE <<>>)

\* the alerts of the message handler for a unit the page holds
Alerts(oldUnit, newData) ==
    (IF newData.is_understaffed /\ ~oldUnit.is_understaffed
     THEN << [message |-> "UNDERSTAFFED", unit |-> newData.unit_id, type |-> "error"] >>
     ELSE <<>>)
    \o
    (IF Len(newData.expired_certifications) > Len(oldUnit.expired_certifications)
     THEN << [message |-> "EXPIRED", unit |-> newData.unit_id, type |-> "warning"] >>
     ELSE <<>>)
    \o
    (IF Len(newData.certifications_missing) > Len(oldUnit.certifications_missing)
     THEN << [message |-> "MISSING", unit |-> newData.unit_id, type |-> "warning"] >>
     ELSE <<>>)

\* the rules chained with else, so only the first that applies is raised
\* (faulty variant of MessageAlerts)
MessageAlertsFirstOnly(prev, newData) ==
    IF newData.unit_id \in DOMAIN prev
    THEN LET alerts == Alerts(prev[newData.unit_id], newData)
         IN IF alerts = <<>> THEN <<>> ELSE << Head(alerts) >>
    ELSE <<>>

\* the alerts the setUnits updater of ws.onmessage raises
MessageAlerts(prev, newData) ==
    IF newData.unit_id \in DOMAIN prev
    THEN Alerts(prev[newData.unit_id], newData)
    ELSE <<>>

\* every held snapshot replaced by the new data (faulty variant of Updated)
UpdatedEveryUnit(prev, newData) ==
    [u \in DOMAIN prev |-> newData]

\* prev.map((u) => u.unit_id === newData.unit_id ? newData : u)
Updated(prev, newData) ==
    [u \in DOMAIN prev |-> IF u = newData.unit_id THEN newData ELSE prev[u]]

\* the alerts raised but the old list returned (faulty variant of WsMessage)
WsMessageKeepsSnapshot(i, newData) ==
    /\ sockets[i].readyState = "OPEN"
    /\ newData.unit_id = sockets[i].unit_id
    /\ Len(toasts) + Len(MessageAlerts(units, newData)) <= MaxToasts
    /\ units' = units
    /\ toasts' = AddToasts(toasts, MessageAlerts(units, newData))
    /\ UNCHANGED <<wsConnected, wsConnectionsRef, sockets, hasCleanup, effectDeps, error, latest, inflight>>
    /\ Rerender
    /\ UNCHANGED dbvars

\* ws.onmessage with a message of type 'unit_readiness'
WsMessage(i, newData) ==
    /\ sockets[i].readyState = "OPEN"
    /\ newData.unit_id = sockets[i].unit_id
    /\ Len(toasts) + Len(MessageAlerts(units, newData)) <= MaxToasts
    /\ units' = Updated(units, newData)
    /\ toasts' = AddToasts(toasts, MessageAlerts(units, newData))
    /\ UNCHANGED <<wsConnected, wsConnectionsRef, sockets, hasCleanup, effectDeps, error, latest, inflight>>
    /\ Rerender
    /\ UNCHANGED dbvars

\* the close event handled like the error event, which leaves the registry
\* alone (faulty variant of OnClose)
OnCloseLiveSetOnly(i) ==
    /\ wsConnected' = wsConnected \ {sockets[i].unit_id}
    /\ wsConnectionsRef' = wsConnectionsRef

\* ws.onclose: the unit leaves the live set and the registry
OnClose(i) ==
    /\ wsConnected' = wsConnected \ {sockets[i].unit_id}
    /\ wsConnectionsRef' = MapDelete(wsConnectionsRef, sockets[i].unit_id)

\* the transport of a socket fails: ws.onerror, then ws.onclose
WsError(i) ==
    /\ Live(sockets[i])
    /\ sockets' = [sockets EXCEPT ![i].readyState = "CLOSED"]
    /\ OnClose(i)
    /\ UNCHANGED <<units, toasts, hasCleanup, effectDeps, error, latest, inflight>>
    /\ Rerender
    /\ UNCHANGED dbvars

\* the closing handshake of a closed socket completes: ws.onclose
WsClose(i) ==
    /\ sockets[i].readyState = "CLOSING"
    /\ sockets' = [sockets EXCEPT ![i].readyState = "CLOSED"]
    /\ OnClose(i)
    /\ UNCHANGED <<units, toasts, hasCleanup, effectDeps, error, latest, inflight>>
    /\ Rerender
    /\ UNCHANGED dbvars

\* removeToast: the toast's timer fires or it is dismissed
RemoveToast(k) ==
    /\ k \in 1..Len(toasts)
    /\ error = NoError
    /\ toasts' = SubSeq(toasts, 1, k - 1) \o SubSeq(toasts, k + 1, Len(toasts))
    /\ UNCHANGED <<units, wsConnected, wsConnectionsRef, sockets, hasCleanup, effectDeps, error, latest, inflight>>
    /\ Rerender
    /\ UNCHANGED dbvars

\* time passes for the timers of the toasts on screen (the error view does
\* not render the ToastContainer)
TimePasses ==
    /\ error = NoError
    /\ toasts # <<>>
    /\ \A k \in DOMAIN toastTimers : toastTimers[k] > 0
    /\ toastTimers' = [k \in DOMAIN toastTimers |-> toastTimers[k] - 1]
    /\ UNCHANGED <<units, wsConnected, toasts, wsConnectionsRef, sockets, hasCleanup, effectDeps,
                   error, latest, inflight>>
    /\ UNCHANGED dbvars

\* the setTimeout of a Toast fires: onClose()
TimerFires(k) ==
    /\ k \in DOMAIN toastTimers
    /\ toastTimers[k] = 0
    /\ RemoveToast(k)

\* the backend computes the next snapshot of the first unit
Compute(d) ==
    /\ d.unit_id = latest.unit_id
    /\ d.timestamp = latest.timestamp + 1
    /\ latest' = d
    /\ UNCHANGED <<units, wsConnected, toasts, wsConnectionsRef, sockets, hasCleanup, effectDeps,
                   error, toastTimers, inflight>>
    /\ UNCHANGED dbvars

\* fetch(`${apiBaseUrl}/api/readiness/units`): the response is built from the
\* snapshot the backend holds when it serves the request
RequestReadiness ==
    /\ inflight = <<>>
    /\ inflight' = << [u \in {latest.unit_id} |-> latest] >>
    /\ UNCHANGED <<units, wsConnected, toasts, wsConnectionsRef, sockets, hasCleanup, effectDeps,
                   error, toastTimers, latest>>
    /\ UNCHANGED dbvars

\* the response arrives: response.ok, setUnits(data)
ReceiveReadiness ==
    /\ inflight # <<>>
    /\ SetUnits(Head(inflight))
    /\ inflight' = Tail(inflight)
    /\ UNCHANGED latest

\* the request fails or its response is not OK: setError in the catch
FetchReadinessFails(msg) ==
    /\ inflight # <<>>
    /\ inflight' = Tail(inflight)
    /\ error' = msg
    /\ UNCHANGED <<units, wsConnected, toasts, wsConnectionsRef, sockets, hasCleanup, effectDeps,
                   toastTimers, latest>>
    /\ UNCHANGED dbvars

\* the backend pushes its latest snapshot over an OPEN socket of the unit
Push(i) == WsMessage(i, latest)

\* what a socket can deliver: text that parses as JSON or not, and, if it
\* parses, the type and the data of the message
MessageFrames(u) ==
    [parses : BOOLEAN, type : {"unit_readiness", "heartbeat"}, data : StaffingData(u)]

\* the frames that are not readiness updates
IgnoredFrames(u) ==
    { f \in MessageFrames(u) : ~f.parses \/ f.type # "unit_readiness" }

\* any message that parses taken for a readiness update (faulty variant of Handled)
HandledAnyType(frame) == frame.parses

\* JSON.parse(event.data) does not throw and message.type === 'unit_readiness'
Handled(frame) == frame.parses /\ frame.type = "unit_readiness"

\* ws.onmessage for any frame
WsFrame(i, frame) ==
    IF Handled(frame)
    THEN WsMessage(i, frame.data)
    ELSE /\ sockets[i].readyState = "OPEN"
         /\ UNCHANGED vars

----------------------------------------------------------------------------
(* Inputs *)

UnitRows ==
    [minimum_staff : 1..MaxMinStaff, required_certifications : SUBSET Certs]

\* a person without recorded expiry dates
PersonnelRowsNoExpiry ==
    [availability_status : AvailabilityInputs,
     certifications : SUBSET Certs,
     cert_expirations : {<<>>}]

\* a person whose recorded expiry dates are for certifications they hold
\* (the create form builds cert_expirations from the selected certifications)
PersonnelRowsExpiry ==
    { r \in [availability_status : {"AVAILABLE"},
             certifications : SUBSET Certs,
             cert_expirations : UNION { [D -> {1}] : D \in SUBSET Certs }] :
        DOMAIN r.cert_expirations \subseteq r.certifications }

\* rows the unit_readiness CTE can produce: a group has at least one person
UnitReadinessRows ==
    { r \in [unit_id : UnitIds,
             minimum_staff : 1..MaxStaff,
             current_staff : 1..MaxStaff,
             available_staff : 0..MaxStaff,
             missing_certs : { ArrayAggDistinct(S) : S \in SUBSET Certs }] :
        r.available_staff <= r.current_staff }

\* the page after its first render: no units loaded, the effect returned early
InitPage ==
    /\ units = <<>>
    /\ wsConnected = {}
    /\ toasts = <<>>
    /\ wsConnectionsRef = <<>>
    /\ sockets = <<>>
    /\ hasCleanup = FALSE
    /\ effectDeps = {}
    /\ error = NoError
    /\ toastTimers = <<>>
    /\ latest = [unit_id |-> ApiUnitOrder[1], is_understaffed |-> FALSE,
                 expired_certifications |-> <<>>, certifications_missing |-> <<>>,
                 timestamp |-> 0]
    /\ inflight = <<>>

InitTables ==
    /\ InitPage
    /\ UNIT_ASSIGNMENTS = {}
    /\ snapshots = {}
    /\ UNIT_READINESS_AGGREGATES = {}
    /\ runs = 0

\* crews with every combination of availability and held certifications
Init ==
    /\ InitTables
    /\ UNITS \in [UnitIds -> UnitRows]
    /\ PERSONNEL \in [1..MaxPersonnel -> PersonnelRowsNoExpiry]
    /\ now = 0
    /\ unit_readiness = {}

Next ==
    \/ \E u \in UnitIds : CreateAssignment(u)
    \/ RunReadinessTask

Spec == Init /\ [][Next]_vars

\* crews with recorded expiry dates, as time passes
InitExpiry ==
    /\ InitTables
    /\ UNITS \in [UnitIds -> UnitRows]
    /\ PERSONNEL \in [1..MaxCrew -> PersonnelRowsExpiry]
    /\ now = 0
    /\ unit_readiness = {}

NextExpiry ==
    \/ \E u \in UnitIds : CreateAssignment(u)
    \/ RunReadinessTask
    \/ Tick

SpecExpiry == InitExpiry /\ [][NextExpiry]_vars

\* two units and a crew whose shifts start and end as time passes
InitShifts ==
    /\ InitTables
    /\ UNITS = [u \in StationUnitIds |-> [minimum_staff |-> 1, required_certifications |-> {}]]
    /\ PERSONNEL = [p \in 1..MaxCrew |-> [availability_status |-> "AVAILABLE",
                                          certifications |-> {},
                                          cert_expirations |-> <<>>]]
    /\ now = 0
    /\ unit_readiness = {}

NextShifts ==
    \/ \E u \in StationUnitIds, p \in DOMAIN PERSONNEL, w \in ShiftWindows, st \in AssignmentStatuses :
         CreateShift(u, p, w, st)
    \/ RunReadinessTask
    \/ Tick

SpecShifts == InitShifts /\ [][NextShifts]_vars

\* one unit whose minimum_staff is edited while its crew grows
InitEdits ==
    /\ InitTables
    /\ UNITS = [u \in UnitIds |-> [minimum_staff |-> 1, required_certifications |-> {}]]
    /\ PERSONNEL \in [1..MaxCrew -> [availability_status : AvailabilityInputs,
                                      certifications : {{}},
                                      cert_expirations : {<<>>}]]
    /\ now = 0
    /\ unit_readiness = {}

NextEdits ==
    \/ \E u \in UnitIds : CreateAssignment(u)
    \/ \E u \in UnitIds, m \in 1..MaxMinStaff : SetMinimumStaff(u, m)
    \/ RunReadinessTask

SpecEdits == InitEdits /\ [][NextEdits]_vars

\* a person who holds every certification, with an expiry recorded for some
\* of them, early or at the end of the period
PersonnelRowsTracked ==
    [availability_status : AvailabilityInputs \cup {"IN_TRAINING"},
     certifications : {Certs},
     cert_expirations : UNION { [D -> {1, MaxTime}] : D \in SUBSET Certs },
     updated_at : {<<0, 0>>}]

\* persons whose certifications expire as time passes
InitCerts ==
    /\ InitTables
    /\ UNITS = [u \in UnitIds |-> [minimum_staff |-> 1, required_certifications |-> {}]]
    /\ PERSONNEL \in [1..MaxCrew -> PersonnelRowsTracked]
    /\ now = 0
    /\ unit_readiness = {}

NextCerts ==
    \/ RunExpirationTask
    \/ Tick

SpecCerts == InitCerts /\ [][NextCerts]_vars

\* the score CASE over every row the unit_readiness CTE can hand it
InitScorer ==
    /\ InitTables
    /\ UNITS = [u \in UnitIds |-> [minimum_staff |-> 1, required_certifications |-> {}]]
    /\ PERSONNEL = <<>>
    /\ now = 0
    /\ \E r \in UnitReadinessRows : unit_readiness = {r}

NextScorer == ScoreRows

SpecScorer == InitScorer /\ [][NextScorer]_vars

\* the readiness page over empty tables
InitReadinessPage ==
    /\ InitTables
    /\ UNITS = <<>>
    /\ PERSONNEL = <<>>
    /\ now = 0
    /\ unit_readiness = {}

NextPage ==
    \/ \E data \in ReadinessResponses : FetchReadiness(data)
    \/ RunEffect
    \/ \E i \in DOMAIN sockets : WsOpen(i)
    \/ \E i \in DOMAIN sockets : \E newData \in StaffingData(sockets[i].unit_id) : WsMessage(i, newData)
    \/ \E i \in DOMAIN sockets : WsError(i)
    \/ \E i \in DOMAIN sockets : WsClose(i)
    \/ \E k \in DOMAIN toasts : RemoveToast(k)

SpecPage == InitReadinessPage /\ [][NextPage]_vars

\* the readiness page with one listed unit and every combination of
\* staffing and certification gaps in the data
NextAlerts ==
    \/ \E data \in AlertResponses : FetchReadiness(data)
    \/ RunEffect
    \/ \E i \in DOMAIN sockets : WsOpen(i)
    \/ \E i \in DOMAIN sockets : \E newData \in UnitReadinessData(sockets[i].unit_id) : WsMessage(i, newData)
    \/ \E i \in DOMAIN sockets : WsError(i)
    \/ \E i \in DOMAIN sockets : WsClose(i)
    \/ \E k \in DOMAIN toasts : RemoveToast(k)

SpecAlerts == InitReadinessPage /\ [][NextAlerts]_vars

\* the readiness page with one unit whose snapshots the backend recomputes,
\* serves on request and pushes, with refreshes that can fail and with the
\* timers of the toasts
NextRefresh ==
    \/ \E d \in VersionedData(ApiUnitOrder[1]) : Compute(d)
    \/ RequestReadiness
    \/ ReceiveReadiness
    \/ \E msg \in FetchErrors : FetchReadinessFails(msg)
    \/ RunEffect
    \/ \E i \in DOMAIN sockets : WsOpen(i)
    \/ \E i \in DOMAIN sockets : Push(i)
    \/ \E i \in DOMAIN sockets : \E frame \in IgnoredFrames(sockets[i].unit_id) : WsFrame(i, frame)
    \/ \E i \in DOMAIN sockets : WsError(i)
    \/ \E k \in DOMAIN toasts : RemoveToast(k)
    \/ TimePasses
    \/ \E k \in DOMAIN toasts : TimerFires(k)

SpecRefresh == InitReadinessPage /\ [][NextRefresh]_vars

----------------------------------------------------------------------------
(* Claims about the readiness computation *)

\* C1: every computed snapshot has understaffed_flag = TRUE exactly when
\* current_staff < minimum_staff, whatever score branch was taken.
C1_UnderstaffedIffBelowMinimum ==
    \A s \in snapshots : s.understaffed_flag = (s.current_staff < s.minimum_staff)

C1_Witness ==
    \E s \in snapshots : /\ s.understaffed_flag
                         /\ s.current_staff + 1 = s.minimum_staff
                         /\ s.readiness_score = 50

\* C2: the readiness score of every computed snapshot is one of 30, 50, 70, 85, 100.
C2_ScoreInFiveValues ==
    \A s \in snapshots : s.readiness_score \in {30, 50, 70, 85, 100}

C2_Witness ==
    \E s \in snapshots : /\ s.readiness_score = 85
                         /\ s.current_staff > s.minimum_staff
                         /\ Len(s.missing_certifications) > 0

\* the decision table of the specification, first match wins; gap says that
\* some certification of the unit is missing or expired
DecisionTable(current, available, minimum, gap) ==
    IF current >= minimum /\ available >= minimum /\ ~gap THEN 100
    ELSE IF current >= minimum /\ available >= minimum THEN 85
    ELSE IF current >= minimum THEN 70
    ELSE IF 10 * current >= 8 * minimum THEN 50
    ELSE 30

\* C3 (as claimed): the score of a fresh snapshot is the decision table's, where
\* the certification gap is "some certification missing or expired".
C3_ScoreIsDecisionTable ==
    runs > 0 =>
      \A s \in snapshots :
        s.readiness_score =
          DecisionTable(s.current_staff, s.available_staff, s.minimum_staff,
                        \/ Len(s.missing_certifications) > 0
                        \/ Len(ExpiredCertifications(s.unit_id)) > 0)

\* C4: understaffed_flag is TRUE exactly when the score is 50 or 30, and FALSE
\* exactly when it is 70, 85 or 100.
C4_FlagAgreesWithScore ==
    \A s \in snapshots :
        /\ s.understaffed_flag <=> s.readiness_score \in {30, 50}
        /\ ~s.understaffed_flag <=> s.readiness_score \in {70, 85, 100}

C4_Witness ==
    \E s \in snapshots : /\ s.readiness_score = 70
                         /\ ~s.understaffed_flag
                         /\ s.current_staff = s.minimum_staff

\* C5 (as claimed): missing_certifications of a fresh snapshot is exactly the set
\* of required certifications that no person of the crew holds.
C5_MissingIsHeldByNobody ==
    runs > 0 =>
      \A s \in snapshots :
        Range(s.missing_certifications) =
          { c \in UNITS[s.unit_id].required_certifications :
              ~ \E p \in Crew(s.unit_id) : c \in PERSONNEL[p].certifications }

\* C6 (as claimed): putting one more person who holds certifications on shift on
\* a unit that has a crew never adds an entry to the unit's missing certifications.
C6_MissingShrinksWhenCrewGrows ==
    [][\A u \in UnitIds :
         (/\ Crew(u) # {}
          /\ Crew(u)' # Crew(u)
          /\ \A p \in Crew(u)' \ Crew(u) : PERSONNEL[p].certifications # {})
         => Range(MissingNow(u))' \subseteq Range(MissingNow(u))]_vars

C8_RerunChangesNothing ==
    [][(runs >= 1 /\ runs' = runs + 1) =>
         (snapshots' = snapshots /\ UNIT_READINESS_AGGREGATES' = UNIT_READINESS_AGGREGATES)]_vars

C8_Witness ==
    /\ runs = 2
    /\ \E r \in UNIT_READINESS_AGGREGATES : r.current_staff >= 2 /\ r.readiness_score = 85

----------------------------------------------------------------------------
(* Claims about the readiness page *)

\* the 'now understaffed' error alerts for unit u among the given toasts
UnderstaffedAlerts(ts, u) ==
    SelectSeq(ts, LAMBDA t : t.message = "UNDERSTAFFED" /\ t.unit = u /\ t.type = "error")

\* C9 (as claimed): a readiness update that can be delivered emits the 'now
\* understaffed' error alert exactly once when it takes the unit from
\* not-understaffed, or from holding no snapshot, to understaffed, and emits
\* none otherwise.
C9_UnderstaffedAlertOncePerTransition ==
    \A i \in DOMAIN sockets :
        sockets[i].readyState = "OPEN" =>
          \A newData \in StaffingData(sockets[i].unit_id) :
            Len(UnderstaffedAlerts(MessageAlerts(units, newData), newData.unit_id))
              = IF /\ newData.is_understaffed
                   /\ (newData.unit_id \in DOMAIN units => ~units[newData.unit_id].is_understaffed)
                THEN 1 ELSE 0

\* the sockets of unit u that are OPEN or CONNECTING
LiveSockets(u) == { i \in DOMAIN sockets : sockets[i].unit_id = u /\ Live(sockets[i]) }

\* C10 (as claimed): at most one OPEN or CONNECTING channel per unit at any time.
C10_AtMostOneLiveChannelPerUnit ==
    \A u \in ApiUnitIds : Cardinality(LiveSockets(u)) <= 1

\* C11 (as claimed): when the subscriptions are requested again for a unit
\* whose registered channel is OPEN, nothing happens for that unit: the
\* channel stays OPEN, the registry keeps its one entry for the unit pointing
\* at that channel, and no second channel is created for the unit.
C11_OpenChannelIsKept ==
    [][effectDeps' # effectDeps =>
         \A u \in DOMAIN units :
           (u \in DOMAIN wsConnectionsRef /\ sockets[wsConnectionsRef[u]].readyState = "OPEN") =>
             /\ u \in DOMAIN wsConnectionsRef'
             /\ wsConnectionsRef'[u] = wsConnectionsRef[u]
             /\ sockets'[wsConnectionsRef[u]].readyState = "OPEN"
             /\ \A i \in DOMAIN sockets' \ DOMAIN sockets : sockets'[i].unit_id # u]_vars

\* C12 (as claimed): a readiness update that can be delivered for a unit of
\* which no snapshot is held, and whose data is understaffed, emits the 'now
\* understaffed' alert with severity error.
C12_FirstUnderstaffedUpdateAlerts ==
    \A i \in DOMAIN sockets :
        (sockets[i].readyState = "OPEN" /\ sockets[i].unit_id \notin DOMAIN units) =>
          \A newData \in StaffingData(sockets[i].unit_id) :
            newData.is_understaffed =>
              UnderstaffedAlerts(MessageAlerts(units, newData), newData.unit_id) # <<>>

\* the unit is understaffed in the new data and was not in the held snapshot
NewlyUnderstaffed(oldUnit, newData) ==
    newData.is_understaffed /\ ~oldUnit.is_understaffed

\* C13: an update for a held unit that is not newly understaffed and whose
\* counts of expired and of missing certifications do not exceed those of the
\* held snapshot (an improvement or no change) adds no alert.
C13_NoAlertWithoutDegradation ==
    [][\A i \in DOMAIN sockets :
         \A newData \in UnitReadinessData(sockets[i].unit_id) :
           ( /\ WsMessage(i, newData)
             /\ newData.unit_id \in DOMAIN units
             /\ ~NewlyUnderstaffed(units[newData.unit_id], newData)
             /\ Len(newData.expired_certifications)
                  <= Len(units[newData.unit_id].expired_certifications)
             /\ Len(newData.certifications_missing)
                  <= Len(units[newData.unit_id].certifications_missing) )
           => toasts' = toasts]_vars

\* all three alerts were raised for a unit, which has since recovered
\* completely without a further alert
C13_Witness ==
    \E u \in DOMAIN units :
        /\ ~units[u].is_understaffed
        /\ units[u].expired_certifications = <<>>
        /\ units[u].certifications_missing = <<>>
        /\ toasts = << [message |-> "UNDERSTAFFED", unit |-> u, type |-> "error"],
                       [message |-> "EXPIRED", unit |-> u, type |-> "warning"],
                       [message |-> "MISSING", unit |-> u, type |-> "warning"] >>
        /\ \E i \in DOMAIN sockets : sockets[i].unit_id = u /\ sockets[i].readyState = "OPEN"

\* the alerts an update step has appended to the toasts
Added(before, after) == SubSeq(after, Len(before) + 1, Len(after))

\* C14: on an update for a held unit the three rules are applied
\* independently of each other: the 'expired certifications' warning is
\* appended iff the new expired count exceeds the held one, the 'missing
\* certifications' warning iff the new missing count exceeds the held one, the
\* 'now understaffed' error iff the unit is newly understaffed, each at most
\* once and nothing else.
C14_RulesAreIndependent ==
    [][\A i \in DOMAIN sockets :
         \A newData \in UnitReadinessData(sockets[i].unit_id) :
           (WsMessage(i, newData) /\ newData.unit_id \in DOMAIN units) =>
             LET oldUnit == units[newData.unit_id]
                 added == Added(toasts, toasts')
                 Has(m, t) == \E k \in DOMAIN added :
                                 added[k] = [message |-> m, unit |-> newData.unit_id, type |-> t]
             IN /\ SubSeq(toasts', 1, Len(toasts)) = toasts
                /\ Has("UNDERSTAFFED", "error") <=> NewlyUnderstaffed(oldUnit, newData)
                /\ Has("EXPIRED", "warning") <=>
                     Len(newData.expired_certifications) > Len(oldUnit.expired_certifications)
                /\ Has("MISSING", "warning") <=>
                     Len(newData.certifications_missing) > Len(oldUnit.certifications_missing)
                /\ NoDuplicates(added)
                /\ \A k \in DOMAIN added :
                     \/ added[k].message = "UNDERSTAFFED" /\ added[k].type = "error"
                     \/ added[k].message \in {"EXPIRED", "MISSING"} /\ added[k].type = "warning"]_vars

\* one update has raised all three alerts for a unit
C14_Witness ==
    \E u \in DOMAIN units :
        /\ units[u].is_understaffed
        /\ units[u].expired_certifications # <<>>
        /\ units[u].certifications_missing # <<>>
        /\ toasts = << [message |-> "UNDERSTAFFED", unit |-> u, type |-> "error"],
                       [message |-> "EXPIRED", unit |-> u, type |-> "warning"],
                       [message |-> "MISSING", unit |-> u, type |-> "warning"] >>

C16_UnknownUnitHasNoChannel ==
    \A u \in ApiUnitIds :
        (u \notin DOMAIN units /\ effectDeps = DOMAIN units) =>
          /\ LiveSockets(u) = {}
          /\ u \notin DOMAIN wsConnectionsRef
          /\ (\A i \in DOMAIN sockets :
                sockets[i].unit_id = u => sockets[i].readyState # "CLOSING")
               => u \notin wsConnected

\* C17: once the transport error of a unit's OPEN or CONNECTING channel has
\* been handled, the channel is CLOSED, the registry holds no entry for the
\* unit and the unit is not in the live set.
C17_ErrorClosesAndUnregisters ==
    [][\A i \in DOMAIN sockets :
         WsError(i) =>
           /\ Live(sockets[i])
           /\ sockets'[i].readyState = "CLOSED"
           /\ sockets[i].unit_id \notin DOMAIN wsConnectionsRef'
           /\ sockets[i].unit_id \notin wsConnected']_vars

\* the only channel ever opened has failed while its unit is still listed
C17_Witness ==
    /\ Len(sockets) = 1
    /\ sockets[1].readyState = "CLOSED"
    /\ sockets[1].unit_id \in DOMAIN units
    /\ effectDeps = DOMAIN units
    /\ wsConnectionsRef = <<>>

\* C18: handling a 'unit_readiness' message changes at most the snapshot of
\* the unit the message names: the known unit ids, every other unit's
\* snapshot, every socket's state (that of the delivering socket included),
\* the registry and the live set stay as they were.
C18_MessageTouchesOneSnapshot ==
    [][\A i \in DOMAIN sockets :
         \A newData \in StaffingData(sockets[i].unit_id) :
           WsMessage(i, newData) =>
             /\ DOMAIN units' = DOMAIN units
             /\ \A u \in DOMAIN units \ {newData.unit_id} : units'[u] = units[u]
             /\ sockets' = sockets
             /\ wsConnectionsRef' = wsConnectionsRef
             /\ wsConnected' = wsConnected]_vars

\* two units are listed with both channels OPEN, and a message has made one of
\* them understaffed while the other is as fetched
C18_Witness ==
    /\ DOMAIN units = ApiUnitIds
    /\ \E u \in DOMAIN units :
         /\ units[u].is_understaffed
         /\ \A v \in DOMAIN units \ {u} : ~units[v].is_understaffed
         /\ toasts = << [message |-> "UNDERSTAFFED", unit |-> u, type |-> "error"] >>
    /\ \A u \in DOMAIN units :
         u \in DOMAIN wsConnectionsRef /\ sockets[wsConnectionsRef[u]].readyState = "OPEN"
    /\ wsConnected = ApiUnitIds

\* a refresh answered with data makes the WebSocket effect run again: the
\* effect depends on the sorted unit ids only
EffectRunsAfter(data) == DOMAIN data # effectDeps

\* C19 (as claimed, the reopening on a later discovery cycle): when a listed
\* unit has no OPEN or CONNECTING channel, a refresh of the units that still
\* lists it makes the effect run again, which opens a new channel for it.
C19_RefreshReopensDeadChannel ==
    \A u \in DOMAIN units :
        (effectDeps = DOMAIN units /\ LiveSockets(u) = {}) =>
          \A data \in ReadinessResponses :
            u \in DOMAIN data => EffectRunsAfter(data)

\* the units with an OPEN socket
OpenUnits == { sockets[i].unit_id : i \in { j \in DOMAIN sockets : sockets[j].readyState = "OPEN" } }

\* the units with a socket that is being closed
ClosingUnits == { sockets[i].unit_id : i \in { j \in DOMAIN sockets : sockets[j].readyState = "CLOSING" } }

\* C20 (as claimed): the live set never omits a unit with an OPEN channel and
\* never holds a unit without one (a channel that is being closed is given the
\* time until its close event), and it is never larger than the list of known
\* units once the subscriptions are up to date and no channel is closing.
C20_LiveSetIsExact ==
    /\ OpenUnits \subseteq wsConnected
    /\ wsConnected \subseteq OpenUnits \cup ClosingUnits
    /\ (effectDeps = DOMAIN units /\ ClosingUnits = {})
         => Cardinality(wsConnected) <= Cardinality(DOMAIN units)

----------------------------------------------------------------------------
(* Claims about refreshes, alerts on screen and the stored aggregates *)

\* C21 (as claimed): whatever the order in which pushed updates and answers
\* to refreshes arrive, the snapshot the page holds for a unit is never
\* replaced by one that was computed earlier.
C21_SnapshotNeverGoesBack ==
    [][\A u \in DOMAIN units \cap DOMAIN units' :
         units'[u].timestamp >= units[u].timestamp]_vars

\* the persons the claim counts for unit u: an ON_SHIFT assignment with
\* shift_start <= now < shift_end, each person once
ClaimedCrew(u) ==
    { a.personnel_id : a \in { x \in UNIT_ASSIGNMENTS :
                                 /\ x.unit_id = u
                                 /\ x.assignment_status = "ON_SHIFT"
                                 /\ x.shift_start <= now /\ now < x.shift_end } }

\* C22 (as claimed): a run of the task computes for each unit a current_staff
\* equal to the number of persons with an ON_SHIFT assignment to the unit
\* whose window holds now with shift_end excluded, whatever the number of
\* such assignments a person has; a unit without such a person gets no row.
C22_StaffCountsHalfOpenWindow ==
    [][runs' = runs + 1 =>
         \A u \in DOMAIN UNITS :
           IF ClaimedCrew(u) = {}
           THEN \A s \in snapshots' : s.unit_id # u
           ELSE \E s \in snapshots' :
                  s.unit_id = u /\ s.current_staff = Cardinality(ClaimedCrew(u))]_vars

\* the page renders the list of units: it returns the error view instead
\* whenever error is set
ListShown == error = NoError

\* C23 (as claimed): when a refresh fails while snapshots are loaded, the list
\* of snapshots is unchanged and is still what the page shows.
C23_FailedRefreshKeepsListShown ==
    [][\A msg \in FetchErrors :
         (FetchReadinessFails(msg) /\ units # <<>> /\ ListShown) =>
           (units' = units /\ ListShown')]_vars

\* C24 (as claimed): the auto-dismiss timer of an alert on screen runs down
\* whatever else happens, so that it fires after its fixed duration: while
\* alerts stay on screen, no step gives one of them more time than it had left.
C24_TimerIsNeverRestarted ==
    [][(Len(toasts') >= Len(toasts) /\ SubSeq(toasts', 1, Len(toasts)) = toasts /\ error' = NoError) =>
         \A k \in DOMAIN toasts : toastTimers'[k] <= toastTimers[k]]_vars

\* C25 (as claimed): every stored row of the aggregate has understaffed_flag
\* = (current_staff < minimum_staff) over its own columns, whatever runs of
\* the task, edits of minimum_staff and new assignments came before.
C25_StoredFlagMatchesStoredColumns ==
    \A r \in UNIT_READINESS_AGGREGATES :
        r.understaffed_flag = (r.current_staff < r.minimum_staff)

\* C26 (as claimed): every socket that is OPEN or CONNECTING is the socket
\* the registry records for its unit.
C26_LiveSocketIsRegistered ==
    \A i \in DOMAIN sockets :
        Live(sockets[i]) =>
          /\ sockets[i].unit_id \in DOMAIN wsConnectionsRef
          /\ wsConnectionsRef[sockets[i].unit_id] = i

\* the stored rows of unit u
StoredRows(u) == { r \in UNIT_READINESS_AGGREGATES : r.unit_id = u }

\* C27: a run of the task leaves the stored rows of every unit that has no
\* assignment selected by the current_assignments CTE exactly as they were,
\* and every row it inserts or changes belongs to a unit that has one.
C27_RunTouchesStaffedUnitsOnly ==
    [][runs' = runs + 1 =>
         /\ \A u \in DOMAIN UNITS :
              Crew(u) = {} => StoredRows(u)' = StoredRows(u)
         /\ \A r \in UNIT_READINESS_AGGREGATES' \ UNIT_READINESS_AGGREGATES :
              Crew(r.unit_id) # {}]_vars

\* the task has just run: the row of a unit whose crew has gone off shift is
\* the one an earlier run stored, the row of a staffed unit is of this run
C27_Witness ==
    /\ runs >= 1
    /\ \E u \in DOMAIN UNITS :
         /\ Crew(u) = {}
         /\ \E r \in StoredRows(u) : r.calculated_at < now /\ r.current_staff >= 1
    /\ \E u \in DOMAIN UNITS :
         /\ Crew(u) # {}
         /\ \E r \in StoredRows(u) : r.calculated_at = now

\* the person has a recorded certification expiry strictly before t
RecordedExpiryBefore(row, t) ==
    \E c \in DOMAIN row.cert_expirations : row.cert_expirations[c] < t

\* C28: a run of the certification-expiration task leaves every person with
\* a recorded expiry strictly before now IN_TRAINING and every other person's
\* row as it was, and a run that follows a run at once changes no row.
C28_ExpirationTaskSetsInTraining ==
    [][runs' = runs + 1 =>
         /\ \A p \in DOMAIN PERSONNEL :
              IF RecordedExpiryBefore(PERSONNEL[p], now)
              THEN PERSONNEL'[p].availability_status = "IN_TRAINING"
              ELSE PERSONNEL'[p] = PERSONNEL[p]
         /\ runs >= 1 => PERSONNEL' = PERSONNEL]_vars

\* the task has run twice in a row: a person it put IN_TRAINING carries the
\* stamp of the first run, and a person whose only recorded expiry is now
\* itself is still AVAILABLE
C28_Witness ==
    /\ runs = 2
    /\ \E p \in DOMAIN PERSONNEL :
         /\ RecordedExpiryBefore(PERSONNEL[p], now)
         /\ PERSONNEL[p].availability_status = "IN_TRAINING"
         /\ PERSONNEL[p].updated_at = <<now, 1>>
    /\ \E p \in DOMAIN PERSONNEL :
         /\ \E c \in DOMAIN PERSONNEL[p].cert_expirations : PERSONNEL[p].cert_expirations[c] = now
         /\ ~RecordedExpiryBefore(PERSONNEL[p], now)
         /\ PERSONNEL[p].availability_status = "AVAILABLE"

\* C29: a frame that does not parse as JSON, or that parses with a type other
\* than 'unit_readiness', leaves the snapshot list, the alert list and the
\* connection registry as they were and the socket that delivered it open.
C29_IgnoredFrameChangesNothing ==
    [][\A i \in DOMAIN sockets : \A frame \in IgnoredFrames(sockets[i].unit_id) :
         WsFrame(i, frame) =>
           /\ units' = units
           /\ toasts' = toasts
           /\ wsConnectionsRef' = wsConnectionsRef
           /\ sockets' = sockets
           /\ wsConnected' = wsConnected]_vars

\* an open, registered socket of a listed unit that is not understaffed while
\* no alert is shown: a readiness update on it could change the list and
\* raise an alert, and every frame that is not one can arrive
C29_Witness ==
    \E i \in DOMAIN sockets :
       /\ sockets[i].readyState = "OPEN"
       /\ sockets[i].unit_id \in DOMAIN units
       /\ ~units[sockets[i].unit_id].is_understaffed
       /\ sockets[i].unit_id \in DOMAIN wsConnectionsRef
       /\ wsConnectionsRef[sockets[i].unit_id] = i
       /\ toasts = <<>>
       /\ \E frame \in IgnoredFrames(sockets[i].unit_id) :
            ~frame.parses /\ ENABLED WsFrame(i, frame)
       /\ \E frame \in IgnoredFrames(sockets[i].unit_id) :
            frame.parses /\ frame.data.is_understaffed /\ ENABLED WsFrame(i, frame)

\* C30: a unit whose minimum_staff is at most 4 never scores 50: below the
\* minimum it scores 30; a score of 50 needs a minimum_staff of 5 or more, and
\* at 5 it is given for a current staff of 4 and no other.
C30_NoFiftyBelowMinimumFive ==
    /\ \A s \in snapshots :
         /\ (s.minimum_staff <= 4 /\ s.current_staff < s.minimum_staff) => s.readiness_score = 30
         /\ s.readiness_score = 50 => s.minimum_staff >= 5
         /\ (s.minimum_staff = 5 /\ s.readiness_score = 50) => s.current_staff = 4
    /\ \E r \in UnitReadinessRows :
         r.minimum_staff = 5 /\ r.current_staff = 4 /\ ReadinessScore(r) = 50

\* the nearest miss: three present of a minimum of four scores 30
C30_Witness ==
    \E s \in snapshots : /\ s.minimum_staff = 4
                         /\ s.current_staff = 3
                         /\ s.readiness_score = 30

====
